---- MODULE Spec2Model ----
(***************************************************************************)
(* Model of the RabbitMQ consumer of package infrarabbit                   *)
(* (src/unnamed/part_000): the reconnect loop Consumer.start, Close, the   *)
(* completion callback and collectMetrics, together with the environment   *)
(* they run against: the connection pool, the broker, the tickers and the  *)
(* application that receives envelopes and invokes their callbacks.        *)
(***************************************************************************)
EXTENDS Integers, Sequences, FiniteSets, TLC

(* ------------------------------ bounds -------------------------------- *)
\* channels the pool hands out over one run (generations)
MaxGen == 2
\* deliveries the broker sends over one run
MaxMsgs == 2
\* capacity of the output queue c.ch (chosen by the constructor)
ChanCap == 1
\* application tasks that call Close
NumClosers == 2
\* the staleness window heartbeatReconnectionInterval, counted in periods of
\* the heartbeat ticker (heartbeatIntervalCheck)
StaleTicks == 1
\* cfg.PrefetchCount at its default: the broker keeps at most that many
\* deliveries outstanding, so no more than that many wait unread on a stream
defaultPrefetchCount == 1
\* largest queue depth QueueDeclarePassive reports to collectMetrics
MaxDepth == 2
\* concurrent or sequential calls of Container.Connect with one name
NumConnects == 3
\* largest age of a peeked message, in half seconds (and, negated, the largest
\* clock skew)
MaxAge == 3

Nil == 0
Gens == 1 .. MaxGen
Closers == 1 .. NumClosers
NoMsg == [id |-> 0, gen |-> 0]
\* what a receive from a NotifyClose channel yields: (closeErr != nil, isOpen).
\* A closed channel yields (nil, false)
Signals == {[closeErr |-> TRUE, isOpen |-> TRUE],
            [closeErr |-> FALSE, isOpen |-> TRUE],
            [closeErr |-> FALSE, isOpen |-> FALSE]}

VARIABLES
    pc,                     \* position of Consumer.start
    isClosed,               \* c.isClosed
    closed,                 \* number of close(c.closed) calls
    ch,                     \* buffer of c.ch
    chClosed,               \* number of close(c.ch) calls
    itemsInProgress,        \* counter of c.itemsInProgress
    channel,                \* local variable channel (Nil or a generation)
    gen,                    \* channels created so far
    deliveries,             \* unread deliveries of the current delivery stream
    isNewConn,              \* isNewConn of the current generation
    connState,              \* "none" | "open" | "closed" (by CloseConnection)
    timeSinceLastUsed,      \* time.Since(lastTimeConnectionUsed), in ticks
    isNeedRecreateChannel,  \* the atomic.Bool of each generation
    hbTick,                 \* a tick is buffered in heartbeatTicker.C
    pending,                \* the envelope of a blocked push, or NoMsg
    released,               \* CloseConsumerChannel calls per channel (0 = nil)
    endedBy,                \* the select case that ended the last generation
    nextMsg,                \* next delivery the broker sends
    readSeq,                \* deliveries read by the loop, in order
    pushed,                 \* envelopes pushed onto c.ch, in order
    received,               \* envelopes the application received, in order
    appHeld,                \* envelopes received and not yet acknowledged
    acked,                  \* ids of the envelopes whose callback was invoked
    cpc,                    \* position of each Close caller
    mu,                     \* holder of c.mu (0 = unlocked)
    ret,                    \* what each Close call returned
    mIn,                    \* what one collectMetrics run is given and finds
    mOut,                   \* what that run did
    kpc,                    \* position of each Container.Connect call
    old,                    \* the collector each call got from GetCollector
    registry,               \* the collector registered for the name, or 0
    conns,                  \* cont.conns[name]: the call that stored it, or 0
    cfg,                    \* cont.cfg[name], likewise
    collectors              \* cont.collectors[name], likewise

evars == <<pc, isClosed, closed, ch, chClosed, itemsInProgress, channel, gen,
           deliveries, isNewConn, connState, timeSinceLastUsed,
           isNeedRecreateChannel, hbTick, pending, released, endedBy, nextMsg,
           readSeq, pushed, received, appHeld, acked, cpc, mu, ret>>
kvars == <<kpc, old, registry, conns, cfg, collectors>>
vars == <<evars, mIn, mOut, kvars>>

(* ---------------------------- collectMetrics --------------------------- *)
\* one run of collectMetrics: the channel it is given, cfg.Metrics and its two
\* callbacks, what QueueDeclarePassive, channel.Get and msg.Reject answer, and
\* time.Since(msg.Timestamp) in half seconds
MetricsInputs ==
    [channel : {"nil", "closed", "open"},
     metrics : BOOLEAN, QueueLength : BOOLEAN, QueueDelay : BOOLEAN,
     declareErr : BOOLEAN, depth : 0 .. MaxDepth,
     get : {"err", "empty", "ok"}, age : (0 - MaxAge) .. MaxAge,
     rejectErr : BOOLEAN, host : {"rabbit-1"}, queue : {"orders"}]

NoInput == [channel |-> "nil", metrics |-> FALSE, QueueLength |-> FALSE,
            QueueDelay |-> FALSE, declareErr |-> FALSE, depth |-> 0,
            get |-> "err", age |-> 0, rejectErr |-> FALSE,
            host |-> "rabbit-1", queue |-> "orders"]

\* no callback invoked, the oldest message of the queue untouched
Untouched == [ran |-> TRUE, lenCalls |-> <<>>, delayCalls |-> <<>>,
              msg |-> "queued"]
NoOutput == [Untouched EXCEPT !.ran = FALSE]

\* int64(seconds) of a duration given in half seconds: truncation toward zero
Int64Seconds(h) == IF h >= 0 THEN h \div 2 ELSE 0 - ((0 - h) \div 2)

\* msg.Reject(requeue) on a message fetched without ack
Reject(requeue, err) ==
    IF err THEN "unacked" ELSE IF requeue THEN "queued" ELSE "dropped"

\* a faulty Peek that reports a negative delay too
PeekNoGuard(in) ==
    IF in.get = "ok"
    THEN [delayCalls |-> << <<in.host, in.queue, Int64Seconds(in.age)>> >>,
          msg |-> Reject(TRUE, in.rejectErr)]
    ELSE [delayCalls |-> <<>>, msg |-> "queued"]

\* msg, ok, err := channel.Get(queue, false); if err == nil && ok: seconds,
\* msg.Reject(true), and QueueDelay(host, queue, int64(seconds)) if seconds >= 0
Peek(in) ==
    IF in.get = "ok"
    THEN [delayCalls |-> IF in.age >= 0
                         THEN << <<in.host, in.queue, Int64Seconds(in.age)>> >>
                         ELSE <<>>,
          msg |-> Reject(TRUE, in.rejectErr)]
    ELSE [delayCalls |-> <<>>, msg |-> "queued"]

\* the body of collectMetrics
CollectMetrics(in) ==
    IF in.channel = "open" /\ in.metrics
    THEN IF in.declareErr
         THEN Untouched
         ELSE LET len == IF in.QueueLength
                         THEN << <<in.host, in.queue, in.depth>> >>
                         ELSE <<>>
              IN  IF ~in.QueueDelay
                  THEN [Untouched EXCEPT !.lenCalls = len]
                  ELSE IF in.depth = 0
                  THEN [Untouched EXCEPT
                            !.lenCalls = len,
                            !.delayCalls = << <<in.host, in.queue, 0>> >>]
                  ELSE [Untouched EXCEPT
                            !.lenCalls = len,
                            !.delayCalls = Peek(in).delayCalls,
                            !.msg = Peek(in).msg]
    ELSE Untouched

(* ------------------------------- Init ---------------------------------- *)
\* the Consumer as constructed, start about to run
EngineInit ==
    /\ pc = "outer"
    /\ isClosed = FALSE
    /\ closed = 0
    /\ ch = <<>>
    /\ chClosed = 0
    /\ itemsInProgress = 0
    /\ channel = Nil
    /\ gen = 0
    /\ deliveries = <<>>
    /\ isNewConn = FALSE
    /\ connState = "none"
    /\ timeSinceLastUsed = 0
    /\ isNeedRecreateChannel = [g \in Gens |-> FALSE]
    /\ hbTick = FALSE
    /\ pending = NoMsg
    /\ released = [c \in 0 .. MaxGen |-> 0]
    /\ endedBy = "none"
    /\ nextMsg = 1
    /\ readSeq = <<>>
    /\ pushed = <<>>
    /\ received = <<>>
    /\ appHeld = {}
    /\ acked = {}
    /\ cpc = [p \in Closers |-> "idle"]
    /\ mu = 0
    /\ ret = [p \in Closers |-> "none"]

\* the calls of Container.Connect, all with one name on one Container; call t
\* opens connection t and creates collector t
Connects == 1 .. NumConnects

\* NewContainer: empty maps, nothing registered for the name
ContainerInit ==
    /\ kpc = [t \in Connects |-> "idle"]
    /\ old = [t \in Connects |-> 0]
    /\ registry = 0
    /\ conns = 0
    /\ cfg = 0
    /\ collectors = 0

Init ==
    /\ EngineInit
    /\ mIn = NoInput
    /\ mOut = NoOutput
    /\ ContainerInit

(* ------------------------- the connection pool ------------------------- *)
\* connectionsManager.CloseConsumerChannel(c): one more call on channel c
CloseConsumerChannel(c) == [released EXCEPT ![c] = @ + 1]

(* --------------------------- Consumer.start ---------------------------- *)
\* for !c.isClosed: the read takes no lock while Close writes the flag under
\* c.mu, so a read that races with the write may still see the old value
ReadIsClosed == IF isClosed THEN {TRUE, FALSE} ELSE {FALSE}

\* a faulty IsFault that takes a closed signal channel (nil, not open) for
\* success
IsFaultErrOnly(sig) == sig.closeErr

\* if closeErr != nil || !isOpen
IsFault(sig) == sig.closeErr \/ ~sig.isOpen

\* a faulty NeedsRebuild that rebuilds as soon as the window is reached
NeedsRebuildEarly(since, flag) == since >= StaleTicks \/ flag

\* a faulty NeedsRebuild that ignores the application-error flag
NeedsRebuildStaleOnly(since, flag) == since > StaleTicks

\* time.Since(lastTimeConnectionUsed) > heartbeatReconnectionInterval ||
\* isNeedRecreateChannel.Load()
NeedsRebuild(since, flag) == since > StaleTicks \/ flag

\* &Message{msg: &msg, host: host, queue: cfg.Queue, callback: callback}: the
\* callback closes over the isNeedRecreateChannel of the generation g
Message(m, g) == [id |-> m, gen |-> g]

\* the generation is over: nothing reads the delivery stream or
\* lastTimeConnectionUsed of the channel given up any more
GenerationOver ==
    /\ deliveries' = <<>>
    /\ timeSinceLastUsed' = 0

\* the ids of a sequence of envelopes
Ids(q) == [i \in 1 .. Len(q) |-> q[i].id]

\* reconnectLoop: for !c.isClosed
OuterCheck ==
    /\ pc = "outer"
    /\ \E seen \in ReadIsClosed : pc' = IF seen THEN "drain" ELSE "get"
    /\ UNCHANGED <<isClosed, closed, ch, chClosed, itemsInProgress, channel,
                  gen, deliveries, isNewConn, connState, timeSinceLastUsed,
                  isNeedRecreateChannel, hbTick, pending, released, endedBy,
                  nextMsg, readSeq, pushed, received, appHeld, acked, cpc,
                  mu, ret, mIn, mOut, kpc, old, registry, conns, cfg,
                  collectors>>

\* a faulty PoolGet that takes an error of connectionsManager.Get for fatal:
\* break out of the reconnect loop
PoolGetFatal ==
    /\ pc = "get"
    /\ \E r \in {"err", "new", "shared"} :
         IF r = "err"
         THEN /\ pc' = "drain"
              /\ UNCHANGED <<isNewConn, connState>>
         ELSE /\ pc' = "create"
              /\ isNewConn' = (r = "new")
              /\ connState' = "open"
    /\ UNCHANGED <<isClosed, closed, ch, chClosed, itemsInProgress, channel,
                  gen, deliveries, timeSinceLastUsed, isNeedRecreateChannel,
                  hbTick, pending, released, endedBy, nextMsg, readSeq,
                  pushed, received, appHeld, acked, cpc, mu, ret, mIn, mOut,
                  kpc, old, registry, conns, cfg, collectors>>

\* connectionsManager.Get: an error (then time.Sleep), or a connection, new or
\* shared
PoolGet ==
    /\ pc = "get"
    /\ \E r \in {"err", "new", "shared"} :
         IF r = "err"
         THEN /\ pc' = "sleep"
              /\ UNCHANGED <<isNewConn, connState>>
         ELSE /\ pc' = "create"
              /\ isNewConn' = (r = "new")
              /\ connState' = "open"
    /\ UNCHANGED <<isClosed, closed, ch, chClosed, itemsInProgress, channel,
                  gen, deliveries, timeSinceLastUsed, isNeedRecreateChannel,
                  hbTick, pending, released, endedBy, nextMsg, readSeq,
                  pushed, received, appHeld, acked, cpc, mu, ret, mIn, mOut,
                  kpc, old, registry, conns, cfg, collectors>>

\* a faulty CreateChannelFail that backs off without CloseConnection(conn)
CreateChannelFailKeepConn ==
    /\ pc = "create"
    /\ channel' = Nil
    /\ pc' = "sleep"
    /\ UNCHANGED <<isClosed, closed, ch, chClosed, itemsInProgress, gen,
                  deliveries, isNewConn, connState, timeSinceLastUsed,
                  isNeedRecreateChannel, hbTick, pending, released, endedBy,
                  nextMsg, readSeq, pushed, received, appHeld, acked, cpc,
                  mu, ret, mIn, mOut, kpc, old, registry, conns, cfg,
                  collectors>>

\* connectionsManager.CreateConsumerChannel failed: channel is assigned the nil
\* result, CloseConnection(conn), then time.Sleep
CreateChannelFail ==
    /\ pc = "create"
    /\ channel' = Nil
    /\ connState' = "closed"
    /\ pc' = "sleep"
    /\ UNCHANGED <<isClosed, closed, ch, chClosed, itemsInProgress, gen,
                  deliveries, isNewConn, timeSinceLastUsed,
                  isNeedRecreateChannel, hbTick, pending, released, endedBy,
                  nextMsg, readSeq, pushed, received, appHeld, acked, cpc,
                  mu, ret, mIn, mOut, kpc, old, registry, conns, cfg,
                  collectors>>

\* CreateConsumerChannel succeeded: a new channel with its delivery stream, the
\* NotifyClose subscriptions, lastTimeConnectionUsed := time.Now() and a fresh
\* isNeedRecreateChannel
CreateChannelOk ==
    /\ pc = "create"
    /\ gen < MaxGen
    /\ gen' = gen + 1
    /\ channel' = gen + 1
    /\ deliveries' = <<>>
    /\ timeSinceLastUsed' = 0
    /\ isNeedRecreateChannel' = [isNeedRecreateChannel EXCEPT ![gen + 1] = FALSE]
    /\ pc' = "inner"
    /\ UNCHANGED <<isClosed, closed, ch, chClosed, itemsInProgress, isNewConn,
                  connState, hbTick, pending, released, endedBy, nextMsg,
                  readSeq, pushed, received, appHeld, acked, cpc, mu, ret,
                  mIn, mOut, kpc, old, registry, conns, cfg, collectors>>

\* the time.Sleep(time.Second) of a failed attempt is over: continue
SleepDone ==
    /\ pc = "sleep"
    /\ pc' = "outer"
    /\ UNCHANGED <<isClosed, closed, ch, chClosed, itemsInProgress, channel,
                  gen, deliveries, isNewConn, connState, timeSinceLastUsed,
                  isNeedRecreateChannel, hbTick, pending, released, endedBy,
                  nextMsg, readSeq, pushed, received, appHeld, acked, cpc,
                  mu, ret, mIn, mOut, kpc, old, registry, conns, cfg,
                  collectors>>

\* the inner for !c.isClosed
InnerCheck ==
    /\ pc = "inner"
    /\ \E seen \in ReadIsClosed :
         IF seen
         THEN /\ pc' = "drain"
              /\ GenerationOver
         ELSE /\ pc' = "select"
              /\ UNCHANGED <<deliveries, timeSinceLastUsed>>
    /\ UNCHANGED <<isClosed, closed, ch, chClosed, itemsInProgress, channel,
                  gen, isNewConn, connState, isNeedRecreateChannel, hbTick,
                  pending, released, endedBy, nextMsg, readSeq, pushed,
                  received, appHeld, acked, cpc, mu, ret, mIn, mOut, kpc,
                  old, registry, conns, cfg, collectors>>

\* a faulty RecvConnClose that subscribes to the close-signal of a shared
\* connection too
RecvConnCloseShared(sig) ==
    /\ pc = "select"
    /\ IF IsFault(sig)
       THEN /\ connState' = "closed"
            /\ endedBy' = IF sig.closeErr THEN "connErr" ELSE "connClosed"
            /\ GenerationOver
            /\ pc' = "outer"
       ELSE /\ pc' = "inner"
            /\ UNCHANGED <<connState, endedBy, deliveries, timeSinceLastUsed>>
    /\ UNCHANGED <<isClosed, closed, ch, chClosed, itemsInProgress, channel,
                  gen, isNewConn, isNeedRecreateChannel, hbTick, pending,
                  released, nextMsg, readSeq, pushed, received, appHeld,
                  acked, cpc, mu, ret, mIn, mOut, kpc, old, registry, conns,
                  cfg, collectors>>

\* case closeErr, isOpen := <-connClose, which is a nil channel unless
\* isNewConn: go readAllErrors(connClose), CloseConnection(conn),
\* continue reconnectLoop
RecvConnClose(sig) ==
    /\ pc = "select"
    /\ isNewConn
    /\ IF IsFault(sig)
       THEN /\ connState' = "closed"
            /\ endedBy' = IF sig.closeErr THEN "connErr" ELSE "connClosed"
            /\ GenerationOver
            /\ pc' = "outer"
       ELSE /\ pc' = "inner"
            /\ UNCHANGED <<connState, endedBy, deliveries, timeSinceLastUsed>>
    /\ UNCHANGED <<isClosed, closed, ch, chClosed, itemsInProgress, channel,
                  gen, isNewConn, isNeedRecreateChannel, hbTick, pending,
                  released, nextMsg, readSeq, pushed, received, appHeld,
                  acked, cpc, mu, ret, mIn, mOut, kpc, old, registry, conns,
                  cfg, collectors>>

\* a faulty RecvChannelClose that closes the connection as the connClose case
\* does
RecvChannelCloseConn(sig) ==
    /\ pc = "select"
    /\ IF IsFault(sig)
       THEN /\ released' = CloseConsumerChannel(channel)
            /\ connState' = "closed"
            /\ endedBy' = IF sig.closeErr THEN "channelErr" ELSE "channelClosed"
            /\ GenerationOver
            /\ pc' = "outer"
       ELSE /\ pc' = "inner"
            /\ UNCHANGED <<released, connState, endedBy, deliveries,
                           timeSinceLastUsed>>
    /\ UNCHANGED <<isClosed, closed, ch, chClosed, itemsInProgress, channel,
                  gen, isNewConn, isNeedRecreateChannel, hbTick, pending,
                  nextMsg, readSeq, pushed, received, appHeld, acked, cpc,
                  mu, ret, mIn, mOut, kpc, old, registry, conns, cfg,
                  collectors>>

\* a faulty RecvChannelClose that gives up on a fault: break out of the
\* reconnect loop instead of continue reconnectLoop
RecvChannelCloseGiveUp(sig) ==
    /\ pc = "select"
    /\ IF IsFault(sig)
       THEN /\ released' = CloseConsumerChannel(channel)
            /\ endedBy' = IF sig.closeErr THEN "channelErr" ELSE "channelClosed"
            /\ GenerationOver
            /\ pc' = "drain"
       ELSE /\ pc' = "inner"
            /\ UNCHANGED <<released, endedBy, deliveries, timeSinceLastUsed>>
    /\ UNCHANGED <<isClosed, closed, ch, chClosed, itemsInProgress, channel,
                  gen, isNewConn, connState, isNeedRecreateChannel, hbTick,
                  pending, nextMsg, readSeq, pushed, received, appHeld,
                  acked, cpc, mu, ret, mIn, mOut, kpc, old, registry, conns,
                  cfg, collectors>>

\* case closeErr, isOpen := <-channelClose: go readAllErrors(channelClose),
\* CloseConsumerChannel(channel), continue reconnectLoop
RecvChannelClose(sig) ==
    /\ pc = "select"
    /\ IF IsFault(sig)
       THEN /\ released' = CloseConsumerChannel(channel)
            /\ endedBy' = IF sig.closeErr THEN "channelErr" ELSE "channelClosed"
            /\ GenerationOver
            /\ pc' = "outer"
       ELSE /\ pc' = "inner"
            /\ UNCHANGED <<released, endedBy, deliveries, timeSinceLastUsed>>
    /\ UNCHANGED <<isClosed, closed, ch, chClosed, itemsInProgress, channel,
                  gen, isNewConn, connState, isNeedRecreateChannel, hbTick,
                  pending, nextMsg, readSeq, pushed, received, appHeld,
                  acked, cpc, mu, ret, mIn, mOut, kpc, old, registry, conns,
                  cfg, collectors>>

\* case <-heartbeatTicker.C
HeartbeatTick ==
    /\ pc = "select"
    /\ hbTick
    /\ hbTick' = FALSE
    /\ IF NeedsRebuild(timeSinceLastUsed, isNeedRecreateChannel[channel])
       THEN /\ released' = CloseConsumerChannel(channel)
            /\ endedBy' = IF isNeedRecreateChannel[channel]
                          THEN "heartbeatFlag" ELSE "heartbeatStale"
            /\ GenerationOver
            /\ pc' = "outer"
       ELSE /\ pc' = "inner"
            /\ UNCHANGED <<released, endedBy, deliveries, timeSinceLastUsed>>
    /\ UNCHANGED <<isClosed, closed, ch, chClosed, itemsInProgress, channel,
                  gen, isNewConn, connState, isNeedRecreateChannel, pending,
                  nextMsg, readSeq, pushed, received, appHeld, acked, cpc,
                  mu, ret, mIn, mOut, kpc, old, registry, conns, cfg,
                  collectors>>

\* case <-metricsTicker.C: go collectMetrics(...), a detached task
MetricsTick ==
    /\ pc = "select"
    /\ pc' = "inner"
    /\ UNCHANGED <<isClosed, closed, ch, chClosed, itemsInProgress, channel,
                  gen, deliveries, isNewConn, connState, timeSinceLastUsed,
                  isNeedRecreateChannel, hbTick, pending, released, endedBy,
                  nextMsg, readSeq, pushed, received, appHeld, acked, cpc,
                  mu, ret, mIn, mOut, kpc, old, registry, conns, cfg,
                  collectors>>

\* a faulty RecvStreamClosed that restarts without CloseConsumerChannel
RecvStreamClosedNoRelease ==
    /\ pc = "select"
    /\ deliveries = <<>>
    /\ endedBy' = "stream"
    /\ GenerationOver
    /\ pc' = "outer"
    /\ UNCHANGED <<isClosed, closed, ch, chClosed, itemsInProgress, channel,
                  gen, isNewConn, connState, isNeedRecreateChannel, hbTick,
                  pending, released, nextMsg, readSeq, pushed, received,
                  appHeld, acked, cpc, mu, ret, mIn, mOut, kpc, old,
                  registry, conns, cfg, collectors>>

\* case msg, isOpen := <-deliveries with !isOpen (the stream was closed and
\* holds nothing more): CloseConsumerChannel(channel), continue reconnectLoop
RecvStreamClosed ==
    /\ pc = "select"
    /\ deliveries = <<>>
    /\ released' = CloseConsumerChannel(channel)
    /\ endedBy' = "stream"
    /\ GenerationOver
    /\ pc' = "outer"
    /\ UNCHANGED <<isClosed, closed, ch, chClosed, itemsInProgress, channel,
                  gen, isNewConn, connState, isNeedRecreateChannel, hbTick,
                  pending, nextMsg, readSeq, pushed, received, appHeld,
                  acked, cpc, mu, ret, mIn, mOut, kpc, old, registry, conns,
                  cfg, collectors>>

\* a faulty RecvDelivery that goes back to the select without evaluating the
\* condition of the inner loop
RecvDeliveryNoCheck ==
    /\ pc = "select"
    /\ deliveries # <<>>
    /\ deliveries' = Tail(deliveries)
    /\ readSeq' = Append(readSeq, Head(deliveries))
    /\ timeSinceLastUsed' = 0
    /\ itemsInProgress' = itemsInProgress + 1
    /\ IF Len(ch) < ChanCap
       THEN /\ ch' = Append(ch, Message(Head(deliveries), channel))
            /\ pushed' = Append(pushed, Head(deliveries))
            /\ pc' = "select"
            /\ UNCHANGED pending
       ELSE /\ pending' = Message(Head(deliveries), channel)
            /\ pc' = "push"
            /\ UNCHANGED <<ch, pushed>>
    /\ UNCHANGED <<isClosed, closed, chClosed, channel, gen, isNewConn,
                  connState, isNeedRecreateChannel, hbTick, released,
                  endedBy, nextMsg, received, appHeld, acked, cpc, mu, ret,
                  mIn, mOut, kpc, old, registry, conns, cfg, collectors>>

\* a faulty RecvDelivery that sends without blocking and drops the
\* envelope when c.ch is full
RecvDeliveryDrop ==
    /\ pc = "select"
    /\ deliveries # <<>>
    /\ deliveries' = Tail(deliveries)
    /\ readSeq' = Append(readSeq, Head(deliveries))
    /\ timeSinceLastUsed' = 0
    /\ IF Len(ch) < ChanCap
       THEN /\ ch' = Append(ch, Message(Head(deliveries), channel))
            /\ pushed' = Append(pushed, Head(deliveries))
            /\ itemsInProgress' = itemsInProgress + 1
       ELSE UNCHANGED <<ch, pushed, itemsInProgress>>
    /\ pc' = "inner"
    /\ UNCHANGED <<isClosed, closed, chClosed, channel, gen, isNewConn,
                  connState, isNeedRecreateChannel, hbTick, pending,
                  released, endedBy, nextMsg, received, appHeld, acked, cpc,
                  mu, ret, mIn, mOut, kpc, old, registry, conns, cfg,
                  collectors>>

\* a faulty RecvDelivery whose envelopes all point at one shared msg
\* variable: the envelopes still queued show the delivery read last
RecvDeliveryShared ==
    /\ pc = "select"
    /\ deliveries # <<>>
    /\ deliveries' = Tail(deliveries)
    /\ readSeq' = Append(readSeq, Head(deliveries))
    /\ timeSinceLastUsed' = 0
    /\ itemsInProgress' = itemsInProgress + 1
    /\ IF Len(ch) < ChanCap
       THEN /\ ch' = Append([i \in 1 .. Len(ch) |->
                                Message(Head(deliveries), ch[i].gen)],
                            Message(Head(deliveries), channel))
            /\ pushed' = Append(pushed, Head(deliveries))
            /\ pc' = "inner"
            /\ UNCHANGED pending
       ELSE /\ ch' = [i \in 1 .. Len(ch) |-> Message(Head(deliveries), ch[i].gen)]
            /\ pending' = Message(Head(deliveries), channel)
            /\ pc' = "push"
            /\ UNCHANGED pushed
    /\ UNCHANGED <<isClosed, closed, chClosed, channel, gen, isNewConn,
                  connState, isNeedRecreateChannel, hbTick, released,
                  endedBy, nextMsg, received, appHeld, acked, cpc, mu, ret,
                  mIn, mOut, kpc, old, registry, conns, cfg, collectors>>

\* case msg, isOpen := <-deliveries with a delivery: lastTimeConnectionUsed =
\* time.Now(), itemsInProgress.Add(1), then c.ch <- &Message{...}, which
\* completes at once when c.ch has room and blocks the loop otherwise
RecvDelivery ==
    /\ pc = "select"
    /\ deliveries # <<>>
    /\ deliveries' = Tail(deliveries)
    /\ readSeq' = Append(readSeq, Head(deliveries))
    /\ timeSinceLastUsed' = 0
    /\ itemsInProgress' = itemsInProgress + 1
    /\ IF Len(ch) < ChanCap
       THEN /\ ch' = Append(ch, Message(Head(deliveries), channel))
            /\ pushed' = Append(pushed, Head(deliveries))
            /\ pc' = "inner"
            /\ UNCHANGED pending
       ELSE /\ pending' = Message(Head(deliveries), channel)
            /\ pc' = "push"
            /\ UNCHANGED <<ch, pushed>>
    /\ UNCHANGED <<isClosed, closed, chClosed, channel, gen, isNewConn,
                  connState, isNeedRecreateChannel, hbTick, released,
                  endedBy, nextMsg, received, appHeld, acked, cpc, mu, ret,
                  mIn, mOut, kpc, old, registry, conns, cfg, collectors>>

\* the blocked c.ch <- &Message{...} completes once c.ch has room
PushUnblock ==
    /\ pc = "push"
    /\ Len(ch) < ChanCap
    /\ ch' = Append(ch, pending)
    /\ pushed' = Append(pushed, pending.id)
    /\ pending' = NoMsg
    /\ pc' = "inner"
    /\ UNCHANGED <<isClosed, closed, chClosed, itemsInProgress, channel, gen,
                  deliveries, isNewConn, connState, timeSinceLastUsed,
                  isNeedRecreateChannel, hbTick, released, endedBy, nextMsg,
                  readSeq, received, appHeld, acked, cpc, mu, ret, mIn, mOut,
                  kpc, old, registry, conns, cfg, collectors>>

\* a faulty Drain that does not wait for c.itemsInProgress
DrainNoWait ==
    /\ pc = "drain"
    /\ released' = CloseConsumerChannel(channel)
    /\ chClosed' = chClosed + 1
    /\ closed' = closed + 1
    /\ pc' = "done"
    /\ UNCHANGED <<isClosed, ch, itemsInProgress, channel, gen, deliveries,
                  isNewConn, connState, timeSinceLastUsed,
                  isNeedRecreateChannel, hbTick, pending, endedBy, nextMsg,
                  readSeq, pushed, received, appHeld, acked, cpc, mu, ret,
                  mIn, mOut, kpc, old, registry, conns, cfg, collectors>>

\* a faulty Drain that never closes c.closed
DrainNoSignal ==
    /\ pc = "drain"
    /\ itemsInProgress = 0
    /\ released' = CloseConsumerChannel(channel)
    /\ chClosed' = chClosed + 1
    /\ pc' = "done"
    /\ UNCHANGED <<isClosed, closed, ch, itemsInProgress, channel, gen,
                  deliveries, isNewConn, connState, timeSinceLastUsed,
                  isNeedRecreateChannel, hbTick, pending, endedBy, nextMsg,
                  readSeq, pushed, received, appHeld, acked, cpc, mu, ret,
                  mIn, mOut, kpc, old, registry, conns, cfg, collectors>>

\* c.itemsInProgress.Wait() returns; CloseConsumerChannel(channel);
\* close(c.ch); close(c.closed); the deferred Stop of both tickers
Drain ==
    /\ pc = "drain"
    /\ itemsInProgress = 0
    /\ released' = CloseConsumerChannel(channel)
    /\ chClosed' = chClosed + 1
    /\ closed' = closed + 1
    /\ pc' = "done"
    /\ UNCHANGED <<isClosed, ch, itemsInProgress, channel, gen, deliveries,
                  isNewConn, connState, timeSinceLastUsed,
                  isNeedRecreateChannel, hbTick, pending, endedBy, nextMsg,
                  readSeq, pushed, received, appHeld, acked, cpc, mu, ret,
                  mIn, mOut, kpc, old, registry, conns, cfg, collectors>>

(* --------------------------- Consumer.Close ---------------------------- *)

\* the callers of Close are interchangeable: they are numbered in the order
\* of their calls
NextCaller(p) == \A q \in Closers : q < p => cpc[q] # "idle"

\* an application task calls Close and finds c.mu held by another caller: it
\* blocks in c.mu.Lock()
CloseCall(p) ==
    /\ cpc[p] = "idle"
    /\ NextCaller(p)
    /\ mu # 0
    /\ cpc' = [cpc EXCEPT ![p] = "lock"]
    /\ UNCHANGED <<pc, isClosed, closed, ch, chClosed, itemsInProgress,
                  channel, gen, deliveries, isNewConn, connState,
                  timeSinceLastUsed, isNeedRecreateChannel, hbTick, pending,
                  released, endedBy, nextMsg, readSeq, pushed, received,
                  appHeld, acked, mu, ret, mIn, mOut, kpc, old, registry,
                  conns, cfg, collectors>>

\* a faulty CloseEnter that returns right after setting the flag, without
\* <-c.closed
CloseEnterNoWait(p) ==
    /\ cpc[p] \in {"idle", "lock"}
    /\ cpc[p] = "idle" => NextCaller(p)
    /\ mu = 0
    /\ isClosed' = TRUE
    /\ cpc' = [cpc EXCEPT ![p] = "returned"]
    /\ ret' = [ret EXCEPT ![p] = "nil"]
    /\ UNCHANGED <<pc, closed, ch, chClosed, itemsInProgress, channel, gen,
                  deliveries, isNewConn, connState, timeSinceLastUsed,
                  isNeedRecreateChannel, hbTick, pending, released, endedBy,
                  nextMsg, readSeq, pushed, received, appHeld, acked, mu,
                  mIn, mOut, kpc, old, registry, conns, cfg, collectors>>

\* a faulty CloseEnter that reports an error when the consumer is closed
\* already
CloseEnterErrClosed(p) ==
    /\ cpc[p] \in {"idle", "lock"}
    /\ cpc[p] = "idle" => NextCaller(p)
    /\ mu = 0
    /\ IF isClosed
       THEN /\ cpc' = [cpc EXCEPT ![p] = "returned"]
            /\ ret' = [ret EXCEPT ![p] = "ErrClosed"]
            /\ UNCHANGED <<isClosed, mu>>
       ELSE /\ isClosed' = TRUE
            /\ mu' = p
            /\ cpc' = [cpc EXCEPT ![p] = "wait"]
            /\ UNCHANGED ret
    /\ UNCHANGED <<pc, closed, ch, chClosed, itemsInProgress, channel, gen,
                  deliveries, isNewConn, connState, timeSinceLastUsed,
                  isNeedRecreateChannel, hbTick, pending, released, endedBy,
                  nextMsg, readSeq, pushed, received, appHeld, acked, mIn,
                  mOut, kpc, old, registry, conns, cfg, collectors>>

\* c.mu.Lock() is granted, to a new caller or to one blocked in it;
\* if c.isClosed { return nil } (the deferred Unlock runs); otherwise
\* c.isClosed = true and the caller blocks on <-c.closed, still holding c.mu
CloseEnter(p) ==
    /\ cpc[p] \in {"idle", "lock"}
    /\ cpc[p] = "idle" => NextCaller(p)
    /\ mu = 0
    /\ IF isClosed
       THEN /\ cpc' = [cpc EXCEPT ![p] = "returned"]
            /\ ret' = [ret EXCEPT ![p] = "nil"]
            /\ UNCHANGED <<isClosed, mu>>
       ELSE /\ isClosed' = TRUE
            /\ mu' = p
            /\ cpc' = [cpc EXCEPT ![p] = "wait"]
            /\ UNCHANGED ret
    /\ UNCHANGED <<pc, closed, ch, chClosed, itemsInProgress, channel, gen,
                  deliveries, isNewConn, connState, timeSinceLastUsed,
                  isNeedRecreateChannel, hbTick, pending, released, endedBy,
                  nextMsg, readSeq, pushed, received, appHeld, acked, mIn,
                  mOut, kpc, old, registry, conns, cfg, collectors>>

\* <-c.closed yields once c.closed is closed; return nil, the deferred Unlock
\* runs
CloseReturn(p) ==
    /\ cpc[p] = "wait"
    /\ closed > 0
    /\ mu' = 0
    /\ cpc' = [cpc EXCEPT ![p] = "returned"]
    /\ ret' = [ret EXCEPT ![p] = "nil"]
    /\ UNCHANGED <<pc, isClosed, closed, ch, chClosed, itemsInProgress,
                  channel, gen, deliveries, isNewConn, connState,
                  timeSinceLastUsed, isNeedRecreateChannel, hbTick, pending,
                  released, endedBy, nextMsg, readSeq, pushed, received,
                  appHeld, acked, mIn, mOut, kpc, old, registry, conns, cfg,
                  collectors>>

(* --------------------------- the application --------------------------- *)

\* the application receives the next envelope from Consume()
AppReceive ==
    /\ ch # <<>>
    /\ ch' = Tail(ch)
    /\ received' = Append(received, Head(ch).id)
    /\ appHeld' = appHeld \cup {Head(ch)}
    /\ UNCHANGED <<pc, isClosed, closed, chClosed, itemsInProgress, channel,
                  gen, deliveries, isNewConn, connState, timeSinceLastUsed,
                  isNeedRecreateChannel, hbTick, pending, released, endedBy,
                  nextMsg, readSeq, pushed, acked, cpc, mu, ret, mIn, mOut,
                  kpc, old, registry, conns, cfg, collectors>>

\* callback(err) of envelope e: if err != nil, isNeedRecreateChannel.Store(true)
\* on the flag of the generation that built the callback; then
\* c.itemsInProgress.Done()
Callback(e, err) ==
    /\ isNeedRecreateChannel' =
           IF err THEN [isNeedRecreateChannel EXCEPT ![e.gen] = TRUE]
                  ELSE isNeedRecreateChannel
    /\ itemsInProgress' = itemsInProgress - 1

\* the application invokes the completion callback of an envelope it holds,
\* once, with an error or with nil
AppAck(e, err) ==
    /\ e \in appHeld
    /\ Callback(e, err)
    /\ appHeld' = appHeld \ {e}
    /\ acked' = acked \cup {e.id}
    /\ UNCHANGED <<pc, isClosed, closed, ch, chClosed, channel, gen,
                  deliveries, isNewConn, connState, timeSinceLastUsed,
                  hbTick, pending, released, endedBy, nextMsg, readSeq,
                  pushed, received, cpc, mu, ret, mIn, mOut, kpc, old,
                  registry, conns, cfg, collectors>>

(* --------------------------- broker and clock -------------------------- *)
\* the loop serves a channel it has created and not yet given up
Serving == pc \in {"inner", "select", "push"}

\* one heartbeat period passes while the loop still reads the ticker:
\* heartbeatTicker.C holds a tick
Tick ==
    /\ pc \notin {"drain", "done"}
    /\ hbTick' = TRUE
    /\ timeSinceLastUsed' =
           IF Serving /\ timeSinceLastUsed <= StaleTicks
           THEN timeSinceLastUsed + 1 ELSE timeSinceLastUsed
    /\ UNCHANGED <<pc, isClosed, closed, ch, chClosed, itemsInProgress,
                  channel, gen, deliveries, isNewConn, connState,
                  isNeedRecreateChannel, pending, released, endedBy, nextMsg,
                  readSeq, pushed, received, appHeld, acked, cpc, mu, ret,
                  mIn, mOut, kpc, old, registry, conns, cfg, collectors>>

\* the broker sends the next delivery on the current delivery stream
BrokerDeliver ==
    /\ Serving
    /\ Len(deliveries) < defaultPrefetchCount
    /\ nextMsg <= MaxMsgs
    /\ deliveries' = Append(deliveries, nextMsg)
    /\ nextMsg' = nextMsg + 1
    /\ UNCHANGED <<pc, isClosed, closed, ch, chClosed, itemsInProgress,
                  channel, gen, isNewConn, connState, timeSinceLastUsed,
                  isNeedRecreateChannel, hbTick, pending, released, endedBy,
                  readSeq, pushed, received, appHeld, acked, cpc, mu, ret,
                  mIn, mOut, kpc, old, registry, conns, cfg, collectors>>

(* --------------------------- specification ----------------------------- *)
\* the broker closes connections, channels and delivery streams only while the
\* pool has a channel left to hand out afterwards
MayFault == gen < MaxGen

Next ==
    \/ OuterCheck
    \/ PoolGet
    \/ CreateChannelFail
    \/ CreateChannelOk
    \/ SleepDone
    \/ InnerCheck
    \/ \E sig \in Signals : (IsFault(sig) => MayFault) /\ RecvConnClose(sig)
    \/ \E sig \in Signals : (IsFault(sig) => MayFault) /\ RecvChannelClose(sig)
    \/ HeartbeatTick
    \/ MetricsTick
    \/ MayFault /\ RecvStreamClosed
    \/ RecvDelivery
    \/ PushUnblock
    \/ Drain
    \/ \E p \in Closers : CloseCall(p)
    \/ \E p \in Closers : CloseEnter(p)
    \/ \E p \in Closers : CloseReturn(p)
    \/ AppReceive
    \/ \E e \in appHeld, err \in BOOLEAN : AppAck(e, err)
    \/ Tick
    \/ BrokerDeliver

Spec == Init /\ [][Next]_vars

(* ------------------------------ fairness ------------------------------- *)
\* a step of the loop that needs nothing from the broker, the pool's good
\* will or the application: at each position at most one of them is enabled
LoopStep ==
    \/ OuterCheck
    \/ PoolGet
    \/ CreateChannelFail
    \/ CreateChannelOk
    \/ SleepDone
    \/ InnerCheck
    \/ HeartbeatTick
    \/ PushUnblock
    \/ Drain

\* the loop leaves the reconnect loop or the serving loop for the drain
LoopExit == (OuterCheck \/ InnerCheck) /\ pc' = "drain"

\* a Close caller that is inside Close goes on
CloseStep ==
    \E p \in Closers : (cpc[p] = "lock" /\ CloseEnter(p)) \/ CloseReturn(p)

\* The loop task is scheduled and each of its steps completes; every pass
\* re-reads c.isClosed, and a flag that stays set is eventually seen; the
\* heartbeat ticker keeps ticking; a caller inside Close is scheduled.
\* Nothing is assumed of the metrics ticker, the broker, the pool's answers or
\* the application.
Fairness ==
    /\ WF_vars(LoopStep)
    /\ SF_vars(LoopExit)
    /\ WF_vars(Tick)
    /\ WF_vars(CloseStep)

LiveSpec == Spec /\ Fairness

(* ------------------- collectMetrics as a specification ----------------- *)

\* one run of collectMetrics on the inputs drawn
MetricsRun ==
    /\ ~mOut.ran
    /\ mOut' = CollectMetrics(mIn)
    /\ UNCHANGED <<pc, isClosed, closed, ch, chClosed, itemsInProgress,
                  channel, gen, deliveries, isNewConn, connState,
                  timeSinceLastUsed, isNeedRecreateChannel, hbTick, pending,
                  released, endedBy, nextMsg, readSeq, pushed, received,
                  appHeld, acked, cpc, mu, ret, mIn, kpc, old, registry,
                  conns, cfg, collectors>>

MetricsInit ==
    /\ EngineInit
    /\ mIn \in MetricsInputs
    /\ mOut = NoOutput
    /\ ContainerInit

MetricsNext == MetricsRun

MetricsSpec == MetricsInit /\ [][MetricsNext]_vars

(* --------------------------- Container.Connect -------------------------- *)

\* sql.Open or conn.Ping fails: Connect returns the wrapped error
ConnectOpenFail(t) ==
    /\ kpc[t] = "idle"
    /\ kpc' = [kpc EXCEPT ![t] = "failed"]
    /\ UNCHANGED <<pc, isClosed, closed, ch, chClosed, itemsInProgress,
                  channel, gen, deliveries, isNewConn, connState,
                  timeSinceLastUsed, isNeedRecreateChannel, hbTick, pending,
                  released, endedBy, nextMsg, readSeq, pushed, received,
                  appHeld, acked, cpc, mu, ret, mIn, mOut, old, registry,
                  conns, cfg, collectors>>

\* sql.Open and conn.Ping succeed and the limits are set on the connection
ConnectOpen(t) ==
    /\ kpc[t] = "idle"
    /\ kpc' = [kpc EXCEPT ![t] = "get"]
    /\ UNCHANGED <<pc, isClosed, closed, ch, chClosed, itemsInProgress,
                  channel, gen, deliveries, isNewConn, connState,
                  timeSinceLastUsed, isNeedRecreateChannel, hbTick, pending,
                  released, endedBy, nextMsg, readSeq, pushed, received,
                  appHeld, acked, cpc, mu, ret, mIn, mOut, old, registry,
                  conns, cfg, collectors>>

\* collector := cont.GetCollector(name), under the read lock
GetCollector(t) ==
    /\ kpc[t] = "get"
    /\ old' = [old EXCEPT ![t] = collectors]
    /\ kpc' = [kpc EXCEPT ![t] = IF collectors # 0 THEN "unregister"
                                 ELSE "register"]
    /\ UNCHANGED <<pc, isClosed, closed, ch, chClosed, itemsInProgress,
                  channel, gen, deliveries, isNewConn, connState,
                  timeSinceLastUsed, isNeedRecreateChannel, hbTick, pending,
                  released, endedBy, nextMsg, readSeq, pushed, received,
                  appHeld, acked, cpc, mu, ret, mIn, mOut, registry, conns,
                  cfg, collectors>>

\* prometheus.Unregister(collector): removes the registered collector that
\* equals the one given, that is, that has the same descriptors; every
\* collector sqlstats creates for one name has the same descriptors
Unregister(t) ==
    /\ kpc[t] = "unregister"
    /\ registry' = 0
    /\ kpc' = [kpc EXCEPT ![t] = "register"]
    /\ UNCHANGED <<pc, isClosed, closed, ch, chClosed, itemsInProgress,
                  channel, gen, deliveries, isNewConn, connState,
                  timeSinceLastUsed, isNeedRecreateChannel, hbTick, pending,
                  released, endedBy, nextMsg, readSeq, pushed, received,
                  appHeld, acked, cpc, mu, ret, mIn, mOut, old, conns, cfg,
                  collectors>>

\* collector := sqlstats.NewStatsCollector(name, conn);
\* prometheus.MustRegister(collector), which panics when a collector with the
\* same descriptors is registered
MustRegister(t) ==
    /\ kpc[t] = "register"
    /\ IF registry = 0
       THEN /\ registry' = t
            /\ kpc' = [kpc EXCEPT ![t] = "store"]
       ELSE /\ kpc' = [kpc EXCEPT ![t] = "panicked"]
            /\ UNCHANGED registry
    /\ UNCHANGED <<pc, isClosed, closed, ch, chClosed, itemsInProgress,
                  channel, gen, deliveries, isNewConn, connState,
                  timeSinceLastUsed, isNeedRecreateChannel, hbTick, pending,
                  released, endedBy, nextMsg, readSeq, pushed, received,
                  appHeld, acked, cpc, mu, ret, mIn, mOut, old, conns, cfg,
                  collectors>>

\* cont.mu.Lock(); the three maps are assigned; Connect returns nil and the
\* deferred Unlock runs
ConnectStore(t) ==
    /\ kpc[t] = "store"
    /\ conns' = t
    /\ cfg' = t
    /\ collectors' = t
    /\ kpc' = [kpc EXCEPT ![t] = "returned"]
    /\ UNCHANGED <<pc, isClosed, closed, ch, chClosed, itemsInProgress,
                  channel, gen, deliveries, isNewConn, connState,
                  timeSinceLastUsed, isNeedRecreateChannel, hbTick, pending,
                  released, endedBy, nextMsg, readSeq, pushed, received,
                  appHeld, acked, cpc, mu, ret, mIn, mOut, old, registry>>

ConnectNext ==
    \E t \in Connects :
        \/ ConnectOpenFail(t)
        \/ ConnectOpen(t)
        \/ GetCollector(t)
        \/ Unregister(t)
        \/ MustRegister(t)
        \/ ConnectStore(t)

ConnectSpec == Init /\ [][ConnectNext]_vars

(* ------------------------------- claims -------------------------------- *)
\* every envelope pushed so far has had its completion callback invoked
AllAcked == \A i \in 1 .. Len(pushed) : pushed[i] \in acked

\* the drain is complete: every envelope read was pushed, received and
\* acknowledged, and the loop has closed the output queue and raised the
\* done-signal, once each
Drained ==
    /\ pc = "done"
    /\ itemsInProgress = 0
    /\ pending = NoMsg
    /\ ch = <<>>
    /\ appHeld = {}
    /\ AllAcked
    /\ chClosed = 1
    /\ closed = 1

\* C1: the output queue is closed at most once, and only when the in-flight
\* count is zero, every envelope pushed so far has had its callback invoked and
\* the loop is past its last push; from then on nothing is pushed and the queue
\* is not closed again.
C1_ClosedOnlyAfterDrain ==
    /\ [](chClosed <= 1)
    /\ [](chClosed = 1 =>
            /\ pc = "done"
            /\ itemsInProgress = 0
            /\ pending = NoMsg
            /\ AllAcked)
    /\ [][chClosed = 1 => pushed' = pushed /\ ch' = ch /\ chClosed' = 1]_vars

\* the queue was closed after envelopes of two generations were pushed
C1_Witness == chClosed = 1 /\ Len(pushed) = MaxMsgs /\ gen = MaxGen

\* C2: whenever a call to Close has returned, to whichever caller, the drain is
\* complete: every envelope emitted has had its callback invoked, the output
\* queue is closed and the done-signal is raised.
C2_CloseReturnsAfterDrain ==
    \A p \in Closers : cpc[p] = "returned" => Drained /\ readSeq = pushed

\* a Close has returned after a fault had ended a generation and envelopes
\* had been emitted
C2_Witness ==
    /\ \E p \in Closers : cpc[p] = "returned"
    /\ endedBy \in {"connErr", "channelErr"}
    /\ pushed # <<>>

\* a caller is inside Close
InClose(p) == cpc[p] \in {"lock", "wait"}

\* C3: Close is idempotent.  No call returns an error; once any call has
\* returned the engine is in the terminal state of a single call (flag set,
\* output queue closed once, done-signal raised once, c.mu free), whoever
\* else calls; and a call made after the done-signal is raised returns nil in
\* the step that grants it c.mu, changing nothing else.
C3_CloseIdempotent ==
    /\ [](\A p \in Closers : ret[p] \in {"none", "nil"})
    /\ [](\A p \in Closers : cpc[p] = "returned" =>
            /\ ret[p] = "nil"
            /\ isClosed /\ chClosed = 1 /\ closed = 1 /\ mu = 0)
    /\ [][\A p \in Closers :
            (/\ \E q \in Closers : cpc[q] = "returned"
             /\ cpc[p] # "returned"
             /\ cpc'[p] # cpc[p])
            => /\ cpc'[p] = "returned"
               /\ ret'[p] = "nil"
               /\ UNCHANGED <<pc, isClosed, closed, ch, chClosed, itemsInProgress,
                    channel, gen, deliveries, isNewConn, connState,
                    timeSinceLastUsed, isNeedRecreateChannel, hbTick,
                    pending, released, endedBy, nextMsg, readSeq, pushed,
                    received, appHeld, acked, mu, mIn, mOut, kpc, old,
                    registry, conns, cfg, collectors>>]_vars

\* both callers have returned, the second one after the first
C3_Witness == \A p \in Closers : cpc[p] = "returned" /\ ret[p] = "nil"

\* the delivery read and held by a blocked push, if any
InPush == IF pc = "push" THEN <<pending.id>> ELSE <<>>

HeartbeatHandled == pc = "select" /\ hbTick /\ ~hbTick'

\* the channel of the serving generation is released through the pool and the
\* loop is back at the top of the reconnect loop
Rebuild ==
    /\ channel \in Gens
    /\ released' = [released EXCEPT ![channel] = @ + 1]
    /\ pc' = "outer"

\* C7: staleness rebuild.  The time measured restarts with every generation
\* and every delivery read; a heartbeat tick taken after more than the
\* staleness window releases the channel through the pool and restarts at the
\* top of the reconnect loop; a tick taken within the window with no
\* application-error flag raised changes nothing but the loop's position.
C7_StalenessRebuild ==
    /\ [][gen' # gen \/ readSeq' # readSeq => timeSinceLastUsed' = 0]_vars
    /\ [][HeartbeatHandled /\ timeSinceLastUsed > StaleTicks => Rebuild]_vars
    /\ [][(/\ HeartbeatHandled
           /\ timeSinceLastUsed <= StaleTicks
           /\ ~isNeedRecreateChannel[channel])
          => pc' = "inner" /\ UNCHANGED <<isClosed, closed, ch, chClosed, itemsInProgress, channel,
                    gen, deliveries, isNewConn, connState, timeSinceLastUsed,
                    isNeedRecreateChannel, pending, released, endedBy,
                    nextMsg, readSeq, pushed, received, appHeld, acked, cpc,
                    mu, ret, mIn, mOut, kpc, old, registry, conns, cfg,
                    collectors>>]_vars

\* a generation that had read a delivery was rebuilt for staleness alone, the
\* closing flag unset
C7_Witness ==
    /\ endedBy = "heartbeatStale"
    /\ pc = "outer"
    /\ ~isClosed
    /\ readSeq # <<>>
    /\ \A g \in Gens : ~isNeedRecreateChannel[g]

\* C8 as stated: a heartbeat tick taken after the callback of any envelope,
\* of the serving generation or of an earlier one, was invoked with an error
\* rebuilds.  (isNeedRecreateChannel[g] is set exactly by such a callback of
\* an envelope of generation g.)
C8_AnyGeneration ==
    [][HeartbeatHandled /\ (\E g \in Gens : isNeedRecreateChannel[g])
       => Rebuild]_vars

\* C8, amended: a callback touches the flag of the generation that emitted its
\* envelope only, raising it when given an error, and the flag stays raised;
\* a heartbeat tick taken while the flag of the serving generation is raised
\* releases the channel and restarts at the top of the reconnect loop, stale
\* or not.
C8_AppErrorRebuild ==
    /\ [][\A e \in appHeld : e \notin appHeld' =>
            /\ itemsInProgress' = itemsInProgress - 1
            /\ \/ isNeedRecreateChannel' = isNeedRecreateChannel
               \/ isNeedRecreateChannel' =
                      [isNeedRecreateChannel EXCEPT ![e.gen] = TRUE]]_vars
    /\ [][\A g \in Gens : isNeedRecreateChannel[g] =>
                          isNeedRecreateChannel'[g]]_vars
    /\ [][HeartbeatHandled /\ isNeedRecreateChannel[channel] => Rebuild]_vars

\* a generation was rebuilt on a heartbeat tick because of the flag, the
\* closing flag unset
C8_Witness ==
    /\ endedBy = "heartbeatFlag"
    /\ pc = "outer"
    /\ ~isClosed
    /\ isNeedRecreateChannel[gen]

\* the application eventually invokes the callback of every envelope it has
\* received
AppAcks == []<>(appHeld = {})

\* the application keeps receiving from the output queue
AppReceives == []<>(ch = <<>>)

\* every Close call returns and the engine reaches CLOSED
CloseCompletes ==
    /\ \A p \in Closers : InClose(p) ~> cpc[p] = "returned"
    /\ isClosed ~> Drained

\* C4 as stated: Close terminates whenever the application acknowledges what
\* it has received, whether or not it keeps receiving.
C4_WithoutReceiving == AppAcks => CloseCompletes

\* C4, amended: Close terminates whenever the application keeps receiving from
\* the output queue and acknowledges what it has received.
C4_CloseTerminates == (AppAcks /\ AppReceives) => CloseCompletes

\* a Close has returned although the pool never handed out a channel and a
\* CreateConsumerChannel had failed
C4_Witness ==
    /\ \E p \in Closers : cpc[p] = "returned"
    /\ gen = 0
    /\ connState = "closed"

\* connectionsManager.Get hands out a connection
PoolGetOk == PoolGet /\ pc' = "create"

\* the pool eventually hands out a connection and a channel
PoolDelivers == SF_vars(PoolGetOk) /\ SF_vars(CreateChannelOk)

\* the loop is re-acquiring after a close-signal with an error ended
\* generation g, the closing flag unset
Recovering(g) ==
    /\ gen = g
    /\ endedBy \in {"connErr", "channelErr"}
    /\ pc \in {"outer", "get", "create", "sleep"}
    /\ ~isClosed

\* C9: recovery after a fault.  Taking a close-signal with an error leaves the
\* output queue, the in-flight count and what the application holds as they
\* are and takes the loop to the top of the reconnect loop; the output queue
\* is closed only once the closing flag is set; and if the pool eventually
\* hands out a connection and a channel, the loop is eventually serving the
\* next channel, unless Close is called first.
C9_Recovery ==
    /\ [][(pc = "select" /\ endedBy' # endedBy
           /\ endedBy' \in {"connErr", "channelErr"})
          => /\ pc' = "outer"
             /\ UNCHANGED <<isClosed, ch, chClosed, closed, itemsInProgress,
                            pushed, received, appHeld, acked>>]_vars
    /\ [](chClosed = 1 => isClosed)
    /\ PoolDelivers =>
         \A g \in 1 .. MaxGen - 1 :
            Recovering(g) ~> ((pc = "select" /\ channel = g + 1) \/ isClosed)

\* after a close-signal with an error the loop forwards a delivery of the new
\* channel while the application still holds an envelope of the old one
C9_Witness ==
    /\ endedBy \in {"connErr", "channelErr"}
    /\ ~isClosed
    /\ Serving
    /\ chClosed = 0
    /\ \E e \in appHeld : e.gen < channel
    /\ ch # <<>> /\ ch[1].gen = channel

\* collectMetrics may use the channel it is given
Usable(in) == in.channel = "open" /\ in.metrics

\* C10: the result of collectMetrics.  With the channel nil or closed or no
\* metrics configured no callback is invoked and no message is touched.
\* Otherwise, once the queue was inspected: QueueLength, if configured, is
\* invoked once with (host, queue, depth); QueueDelay, if configured, is invoked
\* with exactly 0 when the depth is 0, and when the depth is not 0 it is invoked
\* at most once and only with a non-negative number: the whole seconds since
\* the timestamp of the message peeked, and not at all when that is negative;
\* the message peeked is requeued.
C10_MetricsSampler ==
    mOut.ran =>
      /\ ~Usable(mIn) => mOut = Untouched
      /\ mOut.msg # "dropped"
      /\ Usable(mIn) /\ ~mIn.declareErr =>
           /\ mOut.lenCalls = IF mIn.QueueLength
                              THEN << <<mIn.host, mIn.queue, mIn.depth>> >>
                              ELSE <<>>
           /\ ~mIn.QueueDelay => mOut.delayCalls = <<>>
           /\ mIn.QueueDelay /\ mIn.depth = 0 =>
                mOut.delayCalls = << <<mIn.host, mIn.queue, 0>> >>
           /\ mIn.QueueDelay /\ mIn.depth # 0 =>
                /\ Len(mOut.delayCalls) <= 1
                /\ \A i \in 1 .. Len(mOut.delayCalls) :
                       mOut.delayCalls[i][3] >= 0
                /\ mIn.get = "ok" /\ mIn.age >= 0 =>
                     mOut.delayCalls =
                       << <<mIn.host, mIn.queue, mIn.age \div 2>> >>
                /\ mIn.get = "ok" /\ mIn.age < 0 => mOut.delayCalls = <<>>
                /\ mIn.get = "ok" /\ ~mIn.rejectErr => mOut.msg = "queued"

\* a run that peeked a message one second old or older and reported its delay
C10_Witness ==
    /\ mOut.ran
    /\ Usable(mIn)
    /\ mIn.QueueDelay
    /\ mIn.depth # 0
    /\ mIn.get = "ok"
    /\ mOut.delayCalls # <<>>
    /\ mOut.delayCalls[1][3] >= 1
    /\ mOut.msg = "queued"

\* C11 as stated: whatever value the loop receives from the connection or the
\* channel close-signal, nil or not, the signal channel open or closed, the
\* generation ends and the loop restarts at the top of the reconnect loop.
C11_EveryValueIsFault ==
    [][\A sig \in Signals :
          RecvConnClose(sig) \/ RecvChannelClose(sig) => pc' = "outer"]_vars

\* C11, amended: a value received from a close-signal with a non-nil error, or
\* from a close-signal that is closed, ends the generation: the channel signal
\* releases the channel through the pool, the connection signal closes the
\* connection through the pool, and the loop restarts at the top of the
\* reconnect loop; a nil error received while the signal is still open leaves
\* the generation serving and changes nothing.
C11_CloseSignalIsFault ==
    /\ [][\A sig \in Signals :
            RecvChannelClose(sig) /\ (sig.closeErr \/ ~sig.isOpen)
            => Rebuild]_vars
    /\ [][\A sig \in Signals :
            RecvConnClose(sig) /\ (sig.closeErr \/ ~sig.isOpen)
            => connState = "open" /\ connState' = "closed" /\ pc' = "outer"]_vars
    /\ [][\A sig \in Signals :
            (/\ RecvConnClose(sig) \/ RecvChannelClose(sig)
             /\ ~sig.closeErr
             /\ sig.isOpen)
            => pc' = "inner" /\ UNCHANGED <<isClosed, closed, ch, chClosed, itemsInProgress, channel,
                    gen, deliveries, isNewConn, connState, timeSinceLastUsed,
                    isNeedRecreateChannel, hbTick, pending, released,
                    endedBy, nextMsg, readSeq, pushed, received, appHeld,
                    acked, cpc, mu, ret, mIn, mOut, kpc, old, registry,
                    conns, cfg, collectors>>]_vars

\* a generation was ended by a close-signal that carried no error: the signal
\* channel was closed
C11_Witness ==
    /\ endedBy \in {"connClosed", "channelClosed"}
    /\ pc = "outer"
    /\ ~isClosed

\* the loop is acquiring: at the top of the reconnect loop, in Get, in
\* CreateConsumerChannel or in the backoff sleep
Acquiring == pc \in {"outer", "get", "create", "sleep"}

\* C12: no fault is terminal.  The loop is past the reconnect loop, and the
\* output queue and the done-signal are closed, only once the closing flag is
\* set, and the flag never reverts; a failed Get or CreateConsumerChannel leads
\* to the backoff sleep and from there to the top of the reconnect loop; a
\* generation that ends on a close-signal, a closed delivery stream or a
\* heartbeat rebuild leads to the top of the reconnect loop; with the flag unset
\* the checks at the two loop heads let the loop go on, and while acquiring the
\* loop always has a next step, however many attempts have failed.
C12_NoFaultTerminal ==
    /\ [](pc \in {"drain", "done"} => isClosed)
    /\ [](chClosed > 0 \/ closed > 0 => isClosed)
    /\ [][isClosed => isClosed']_vars
    /\ [][pc = "get" /\ pc' # pc => pc' \in {"sleep", "create"}]_vars
    /\ [][pc = "create" /\ pc' # pc => pc' \in {"sleep", "inner"}]_vars
    /\ [][pc = "sleep" /\ pc' # pc => pc' = "outer"]_vars
    /\ [][pc = "select" /\ pc' \notin {"select", "inner", "push"}
          => pc' = "outer"]_vars
    /\ [][pc = "push" /\ pc' # pc => pc' = "inner"]_vars
    /\ [][pc = "outer" /\ ~isClosed /\ pc' # pc => pc' = "get"]_vars
    /\ [][pc = "inner" /\ ~isClosed /\ pc' # pc => pc' = "select"]_vars
    /\ [](Acquiring =>
            ENABLED (OuterCheck \/ PoolGet \/ CreateChannelFail \/ SleepDone))

\* with the closing flag unset the loop is at the top of the reconnect loop
\* again after the last channel the pool hands out was lost to a fault and a
\* CreateConsumerChannel failed
C12_Witness ==
    /\ pc = "outer"
    /\ ~isClosed
    /\ gen = MaxGen
    /\ endedBy # "none"
    /\ channel = Nil
    /\ connState = "closed"

(* --------------------- accesses to the shared state -------------------- *)
\* how the state shared by the loop and the application's tasks is declared:
\* isClosed bool, itemsInProgress sync.WaitGroup, isNeedRecreateChannel
\* atomic.Bool
Primitive == [isClosed |-> "plain",
              itemsInProgress |-> "WaitGroup",
              isNeedRecreateChannel |-> "atomic"]

\* the locks Consumer.start holds at its accesses: it never takes c.mu
LoopLocks == {}

\* the locks Close holds at c.isClosed = true, and a callback at its accesses
CloseLocks == {"mu"}
CallbackLocks == {}

\* caller p is about to take c.mu and write c.isClosed = true
WritesIsClosed(p) ==
    /\ cpc[p] \in {"idle", "lock"}
    /\ cpc[p] = "idle" => NextCaller(p)
    /\ mu = 0
    /\ ~isClosed

\* the next step of the loop and the next step of an application task access
\* the same piece of shared state, one of them writing, and neither step is
\* ordered after the other
Concurrent ==
    [isClosed |->
        /\ pc \in {"outer", "inner"}
        /\ \E p \in Closers : WritesIsClosed(p),
     itemsInProgress |->
        /\ \/ pc = "select" /\ deliveries # <<>>
           \/ pc = "drain"
        /\ appHeld # {},
     isNeedRecreateChannel |->
        /\ pc = "select" /\ hbTick
        /\ \E e \in appHeld : e.gen = channel]

\* the locks common to the two accesses
CommonLocks ==
    [isClosed |-> LoopLocks \cap CloseLocks,
     itemsInProgress |-> LoopLocks \cap CallbackLocks,
     isNeedRecreateChannel |-> LoopLocks \cap CallbackLocks]

\* C13: the shared state is accessed through safe concurrent primitives only:
\* whenever an access of the loop and a conflicting access of an application
\* task are concurrent, the state accessed is not a plain variable, or both
\* accesses are made under one lock.
C13_SharedStateSynchronised ==
    \A v \in DOMAIN Primitive :
        Concurrent[v] => Primitive[v] # "plain" \/ CommonLocks[v] # {}

\* a generation ends on a select case: continue reconnectLoop
GenerationEnds == pc = "select" /\ pc' = "outer"

\* the generation just ended on the connection close-signal
EndedByConn == endedBy' \in {"connErr", "connClosed"}

\* CloseConsumerChannel is called once, with the channel of the generation
ReleasesChannel ==
    /\ channel \in Gens
    /\ released' = [released EXCEPT ![channel] = @ + 1]

\* C14 as stated: whichever select case ends a generation, the connection
\* close-signal included, CloseConsumerChannel is called with its channel, and
\* the shutdown calls it with the channel held.
C14_EveryEndReleases ==
    /\ [][GenerationEnds => ReleasesChannel]_vars
    /\ [][pc = "drain" /\ pc' = "done" =>
            released' = [released EXCEPT ![channel] = @ + 1]]_vars

\* C14, amended: a generation that ends on the channel close-signal, on a
\* heartbeat rebuild or on a closed delivery stream calls CloseConsumerChannel
\* with its channel; one that ends on the connection close-signal calls
\* CloseConnection and no CloseConsumerChannel; the shutdown calls
\* CloseConsumerChannel with whatever the variable channel holds, so that a
\* generation ended by the closing flag has its channel released once the
\* drain is over.
C14_ChannelReleased ==
    /\ [][GenerationEnds /\ ~EndedByConn => ReleasesChannel]_vars
    /\ [][GenerationEnds /\ EndedByConn =>
            released' = released /\ connState' = "closed"]_vars
    /\ [][pc = "drain" /\ pc' = "done" =>
            released' = [released EXCEPT ![channel] = @ + 1]]_vars
    /\ [][pc = "inner" /\ pc' = "drain" =>
            channel = gen /\ channel' = channel]_vars
    /\ [](pc = "done" /\ channel \in Gens => released[channel] >= 1)

\* a first generation ended on a fault and the last one on the closing flag,
\* and the channel of each was released
C14_Witness ==
    /\ pc = "done"
    /\ gen = MaxGen
    /\ channel = MaxGen
    /\ \A g \in Gens : released[g] = 1

\* C15: teardown is exactly once per channel.  CloseConsumerChannel is never
\* called with the nil channel and at most once with each channel created;
\* this includes the call of the shutdown, which then targets a channel that
\* is still held.
C15_ExactlyOnceTeardown ==
    /\ released[Nil] = 0
    /\ \A g \in Gens : released[g] <= 1

\* C16: the connection close-signal is monitored only for a connection the
\* acquisition newly created.  While a generation on a shared connection is
\* serving, no step receives from the connection close-signal, no generation
\* ends on it and CloseConnection is not called; a generation that ends on the
\* connection close-signal runs on a new connection, CloseConnection is called
\* and the loop restarts at the top of the reconnect loop.  isNewConn is what
\* the Get of the generation returned and does not change while it serves.
C16_ConnSignalOnlyIfNew ==
    /\ [](Serving => connState = "open")
    /\ [][Serving => isNewConn' = isNewConn]_vars
    /\ [][Serving /\ ~isNewConn =>
            /\ connState' = connState
            /\ ~(GenerationEnds /\ EndedByConn)
            /\ \A sig \in Signals : ~RecvConnClose(sig)]_vars
    /\ [][GenerationEnds /\ EndedByConn =>
            isNewConn /\ connState' = "closed"]_vars
    /\ [][\A sig \in Signals :
            RecvConnClose(sig) /\ (sig.closeErr \/ ~sig.isOpen) =>
               isNewConn /\ connState' = "closed" /\ pc' = "outer"]_vars

\* a generation on a new connection ended on the connection close-signal and
\* the next generation is serving on a shared connection
C16_Witness ==
    /\ endedBy \in {"connErr", "connClosed"}
    /\ gen = MaxGen
    /\ ~isNewConn
    /\ pc = "select"
    /\ connState = "open"
    /\ hbTick

\* the step is one of the channel-level transitions: a generation ends on the
\* channel close-signal, a heartbeat rebuild or a closed delivery stream, or
\* the shutdown completes
ChannelLevelStep ==
    \/ GenerationEnds /\ ~EndedByConn
    \/ pc = "drain" /\ pc' = "done"

\* C17: channel-level faults leave the connection untouched.  A generation
\* that ends on the channel close-signal, a heartbeat rebuild or a closed
\* delivery stream, and the shutdown, call CloseConsumerChannel once and do not
\* call CloseConnection, and they leave the in-flight count and the contents
\* of the output queue as they are.
C17_ChannelFaultFrame ==
    [][ChannelLevelStep =>
         /\ released' = [released EXCEPT ![channel] = @ + 1]
         /\ connState' = connState
         /\ itemsInProgress' = itemsInProgress
         /\ ch' = ch
         /\ UNCHANGED <<pushed, received, appHeld, acked, pending>>]_vars

\* a generation ended on a channel-level fault while the output queue held an
\* envelope and the connection is still open
C17_Witness ==
    /\ endedBy \in {"channelErr", "channelClosed", "heartbeatStale",
                    "heartbeatFlag", "stream"}
    /\ pc = "outer"
    /\ connState = "open"
    /\ ch # <<>>
    /\ itemsInProgress > 0
    /\ released[channel] = 1

\* connectionsManager.Get has failed
GetFails == pc = "get" /\ pc' = "sleep"

\* connectionsManager.CreateConsumerChannel has failed
CreateFails == pc = "create" /\ pc' = "sleep"

\* C18: the failure policy while acquiring.  A failed Get closes nothing; a
\* failed CreateConsumerChannel calls CloseConnection on the connection
\* acquired, new or shared, and no CloseConsumerChannel; either way nothing is
\* read or pushed, no generation starts and the loop sleeps; after the sleep
\* the loop is at the check of the reconnect loop, which every Get follows,
\* and once the closing flag is set the loop eventually stops acquiring: it
\* leaves the reconnect loop, or the attempt in progress succeeds.
C18_AcquiringFailurePolicy ==
    /\ [][GetFails => connState' = connState /\ released' = released]_vars
    /\ [][CreateFails =>
            /\ connState = "open"
            /\ connState' = "closed"
            /\ released' = released]_vars
    /\ [][GetFails \/ CreateFails =>
            UNCHANGED <<gen, readSeq, pushed, ch, itemsInProgress, isClosed,
                        chClosed, closed>>]_vars
    /\ [][pc = "sleep" /\ pc' # pc => pc' = "outer"]_vars
    /\ [][pc = "outer" /\ pc' # pc => pc' \in {"get", "drain"}]_vars
    /\ [][pc' = "get" /\ pc # "get" => pc = "outer"]_vars
    /\ [][pc' = "create" /\ pc # "create" => pc = "get"]_vars
    /\ (isClosed /\ Acquiring) ~> ~Acquiring

\* a CreateConsumerChannel failed before any channel was created, and the
\* closing flag was set while the loop sleeps
C18_Witness ==
    /\ pc = "sleep"
    /\ gen = 0
    /\ channel = Nil
    /\ connState = "closed"
    /\ isClosed
    /\ pushed = <<>>

AllConnectsReturned ==
    /\ \A t \in Connects : kpc[t] \in {"idle", "failed", "returned"}
    /\ \E t \in Connects : kpc[t] = "returned"

\* C20: for any interleaving of Connect calls with one name, MustRegister
\* never finds a collector registered for the name (no call panics), and once
\* all calls have returned the connection, the config and the collector stored
\* under the name come from one call, whose collector is the one registered.
C20_ConnectConsistent ==
    /\ \A t \in Connects : kpc[t] # "panicked"
    /\ AllConnectsReturned =>
         /\ conns = collectors
         /\ cfg = collectors
         /\ registry = collectors

====
